---- MODULE Spec2Model ----
(***************************************************************************)
(* Backup lifecycle of the Electron main process (src/electron/main.cjs):  *)
(* createWindow, which makes the backup directory when the application     *)
(* starts and when it is activated with no window (window-all-closed,      *)
(* 'activate'); the recurring-backup schedule (scheduleAutoBackup, the cron      *)
(* callback); the IPC handlers backup-database, backup-database-enhanced,   *)
(* restore-database, repair-database, choose-backup-path, setup-auto-backup *)
(* and login; the backup and restore items of the menu, the second with     *)
(* its restart (app.relaunch, app.exit); and the will-quit handler.         *)
(*                                                                         *)
(* Every handler is an async function: one action per synchronous segment  *)
(* between two awaits.  An invocation that is suspended at an await is a   *)
(* record in the bag `tasks`.  DatabaseService (database.cjs) and the      *)
(* node-cron task are collaborators; their behaviour is the contract the   *)
(* specification gives for the Storage Backend and the Schedule Trigger.   *)
(* The disk outlives the process: the backup directory and the files in    *)
(* it are there, or not, when main.cjs is loaded, and the directory can    *)
(* be removed from outside while the process runs.                         *)
(***************************************************************************)
EXTENDS Naturals, Sequences, FiniteSets, Bags, TLC

VARIABLES
  backupSchedule,  \* main.cjs:11  the trigger held, NoTrigger for null
  scheduled,       \* bag of the triggers node-cron will fire (started, not stopped)
  tasks,           \* bag of handler / callback invocations suspended at an await
  dirExists,       \* fs.existsSync(<userData>/backups)
  files,           \* the backup files that exist on disk
  liveDb,          \* the live database file: Original, or Restored from a backup
  app,             \* the process: "loading" (main.cjs is loaded, no window
                   \* yet), "ready" (createWindow has built the window and
                   \* the menu), "failed" (createWindow threw), "closed"
                   \* (the window was closed and the process goes on, as
                   \* it does on darwin: no window, the menu still set),
                   \* "quit" (will-quit has run), "exited" (app.exit()
                   \* ended it)
  reply            \* what the invocation finished by the last step returned

vars == <<backupSchedule, scheduled, tasks, dirExists, files, liveDb, app, reply>>

----------------------------------------------------------------------------
(* Bounds of the model *)

MaxTasks == 1

----------------------------------------------------------------------------
(* Values *)

\* No fraction of a second in a name.
NoMillis == <<>>

NoPath == <<"", "", 0, NoMillis>>
NoId == "null"
DriveId == "driveId"
\* A path is <<directory, name, seconds, milliseconds>>: the name of a backup
\* file is <name>-<timestamp>.db, the timestamp whole seconds with the
\* milliseconds after them when the name keeps them.
CustomPath == <<"chosen", "custom.db", 0, NoMillis>>
MissingPath == <<"chosen", "missing.db", 0, NoMillis>>
Original == "original"
Restored == "restored"
NoPattern == "nopattern"

\* The values a caller may pass as `schedule`; "" stands for every falsy value.
ScheduleInputs == {"manual", "daily", "weekly", "monthly", "", "hourly"}

\* new Date(): milliseconds since the epoch; two instants of one second,
\* after the earlier runs of the application.
Instants == {1000, 1500}

\* toISOString().replace(/:/g, '-').replace(/\..+/, ''): the fraction of the
\* second is cut off, the name keeps whole seconds.
Timestamp(instant) == instant \div 1000

\* path.join(backupDir, `${prefix}-${timestamp}.db`)
BackupPath(prefix, instant) == <<"backups", prefix, Timestamp(instant), NoMillis>>

\* toISOString().replace(/[:.]/g, '-') of the menu: the milliseconds stay.
Millis(instant) == <<instant % 1000>>

\* path.join(backupDir, `gym-backup-${date}.db`) of the menu
MenuBackupPath(instant) ==
  <<"backups", "gym-backup", Timestamp(instant), Millis(instant)>>

\* A backup file an earlier run of the application left in the directory.
EarlierBackup == <<"backups", "gym-backup", 0, NoMillis>>

\* Variant: the expressions of weekly and monthly are exchanged.
CronPatternExchanged(schedule) ==
  CASE schedule = "daily" -> "0 2 * * *"
    [] schedule = "weekly" -> "0 2 1 * *"
    [] schedule = "monthly" -> "0 2 * * 0"
    [] OTHER -> NoPattern

\* switch (schedule) of scheduleAutoBackup
CronPattern(schedule) ==
  CASE schedule = "daily" -> "0 2 * * *"
    [] schedule = "weekly" -> "0 2 * * 0"
    [] schedule = "monthly" -> "0 2 1 * *"
    [] OTHER -> NoPattern

\* What a finished invocation handed back.  keys: the properties of the object
\* returned over IPC ("logged" for a callback that wrote console.error);
\* failed: the step of the invocation that failed; local / remote: how the
\* Storage Backend call and the upload of this invocation ended; thrown: an
\* exception left the handler; arg: the schedule a setup request asked for;
\* stops: the calls of trigger.stop() the invocation made; calls: the calls
\* will-quit made on its collaborators, in their order; logged: console.error
\* was written, which every catch block of main.cjs does before it goes on;
\* message / user: the message and the user object of a login result;
\* dialog: what a handler of the menu showed, "message" (showMessageBox) or
\* "error" (showErrorBox).
NoReply ==
  [op |-> "none", keys |-> {}, path |-> NoPath, driveFileId |-> NoId,
   failed |-> "none", local |-> "none", remote |-> "none", thrown |-> FALSE,
   arg |-> "none", stops |-> 0, calls |-> <<>>, logged |-> FALSE,
   message |-> "none", user |-> {}, dialog |-> "none"]

Reply(op, keys, path, id, failed, local, remote) ==
  [op |-> op, keys |-> keys, path |-> path, driveFileId |-> id,
   failed |-> failed, local |-> local, remote |-> remote, thrown |-> FALSE,
   arg |-> "none", stops |-> 0, calls |-> <<>>, logged |-> failed # "none",
   message |-> "none", user |-> {}, dialog |-> "none"]

\* An invocation suspended at an await.  pc: "dialog", "backend" or "upload",
\* the promise awaited; flag / creds: uploadToDrive and driveCredentials of
\* the request (the driveCredentials of the closure for a callback); local:
\* how the Storage Backend call of this invocation ended; at: the instant
\* new Date() gave the invocation (0 when it did not read the clock); args:
\* the username and password of a login request.
Task(kind, pc, path, flag, creds, local, at) ==
  [kind |-> kind, pc |-> pc, path |-> path, flag |-> flag, creds |-> creds,
   local |-> local, at |-> at, args |-> <<>>]

\* app.exit() ends the process at once: nothing of it runs afterwards.
Alive == app # "exited"

InFlight == BagCardinality(tasks)
Suspend(t) == tasks (+) SetToBag({t})
Resume(t, next) == (tasks (-) SetToBag({t})) (+) SetToBag(next)

----------------------------------------------------------------------------
(* The Schedule Trigger (node-cron task) *)

\* A trigger is the cron expression it was created with and the
\* driveCredentials its callback closes over.
NoTrigger == [pattern |-> NoPattern, creds |-> FALSE]

\* Variant: the credentials of the previous schedule are kept when the call
\* brings none.
NewTriggerKeepsCredentials(pattern, creds) ==
  [pattern |-> pattern, creds |-> creds \/ backupSchedule.creds]

\* cron.schedule(cronPattern, callback)
NewTrigger(pattern, creds) == [pattern |-> pattern, creds |-> creds]

\* task.stop(): node-cron fires the task no more; a no-op on a stopped task.
StopTrigger(trigger) == scheduled (-) SetToBag({trigger})

\* task.start() of a task just created.
StartTrigger(running, trigger) == running (+) SetToBag({trigger})

Active == BagCardinality(scheduled)

----------------------------------------------------------------------------
(* scheduleAutoBackup *)

\* Variant: the previous trigger is dropped without stop().
StopPreviousSkipped == [running |-> scheduled, calls |-> 0]

\* if (backupSchedule) { backupSchedule.stop(); backupSchedule = null; }
\* running: what node-cron still fires; calls: the calls of stop() made.
StopPrevious ==
  IF backupSchedule # NoTrigger
  THEN [running |-> StopTrigger(backupSchedule), calls |-> 1]
  ELSE [running |-> scheduled, calls |-> 0]

\* if (schedule && schedule !== 'manual') with a case of the switch taken
StartsTrigger(schedule) ==
  /\ schedule # ""
  /\ schedule # "manual"
  /\ CronPattern(schedule) # NoPattern

\* Variant: 'manual' returns before the previous trigger is stopped.
scheduleAutoBackupManualFirst(schedule, driveCredentials) ==
  IF schedule = "manual"
  THEN UNCHANGED <<scheduled, backupSchedule>>
  ELSE IF StartsTrigger(schedule)
       THEN /\ scheduled' =
                 StartTrigger(StopPrevious.running,
                              NewTrigger(CronPattern(schedule), driveCredentials))
            /\ backupSchedule' = NewTrigger(CronPattern(schedule), driveCredentials)
       ELSE /\ scheduled' = StopPrevious.running
            /\ backupSchedule' = NoTrigger

scheduleAutoBackup(schedule, driveCredentials) ==
  IF StartsTrigger(schedule)
  THEN /\ scheduled' =
            StartTrigger(StopPrevious.running,
                         NewTrigger(CronPattern(schedule), driveCredentials))
       /\ backupSchedule' = NewTrigger(CronPattern(schedule), driveCredentials)
  ELSE /\ scheduled' = StopPrevious.running
       /\ backupSchedule' = NoTrigger

\* Variant: a value that is no frequency is answered with an error.
SetupReplyRejects(schedule) ==
  [Reply("setup",
         IF schedule \in {"manual", "daily", "weekly", "monthly"}
         THEN {"success"} ELSE {"error"},
         NoPath, NoId, "none", "none", "none")
     EXCEPT !.arg = schedule, !.stops = StopPrevious.calls]

\* The result of setup-auto-backup: scheduleAutoBackup has no throwing path.
SetupReply(schedule) ==
  [Reply("setup", {"success"}, NoPath, NoId, "none", "none", "none")
     EXCEPT !.arg = schedule, !.stops = StopPrevious.calls]

\* ipcMain.handle('setup-auto-backup')
SetupAutoBackup(schedule, driveCredentials) ==
  /\ app = "ready"
  /\ scheduleAutoBackup(schedule, driveCredentials)
  /\ reply' = SetupReply(schedule)
  /\ UNCHANGED <<tasks, dirExists, files, liveDb, app>>

----------------------------------------------------------------------------
(* The Storage Backend (DatabaseService) and the file system *)

\* Variant: mkdirSync is called without looking for the directory first.
MkdirCalledAlways == TRUE

\* if (!fs.existsSync(backupDir)): mkdirSync is called.
MkdirCalled == ~dirExists

\* Variant: the directory is never created.
ensureBackupDirectoryNoCreate(mkdirOk) == dirExists

\* ensureBackupDirectory: the directory exists afterwards, or mkdirSync threw.
ensureBackupDirectory(mkdirOk) == IF MkdirCalled THEN mkdirOk ELSE dirExists

\* DatabaseService.backup(path): the files on disk when the call has ended.
BackendBackup(path, ok) == IF ok THEN files \cup {path} ELSE files

\* How DatabaseService.backup(path) can end: it cannot write into a
\* directory that is not there.
BackupOutcomes(path) ==
  IF path[1] = "backups" /\ ~dirExists THEN {FALSE} ELSE BOOLEAN

\* DatabaseService.backup(path) resolves to the path it wrote.
BackendBackupResult(path) == path

\* DatabaseService.restore(path) succeeds only on a file that exists.
BackendRestoreOk(path, ok) == path \in files /\ ok

\* The live database after DatabaseService.restore(path).
BackendRestore(path, ok) == IF BackendRestoreOk(path, ok) THEN Restored ELSE liveDb

\* The invocation with the end of its Storage Backend call noted in it.
BackendEnded(t, ok) == [t EXCEPT !.local = IF ok THEN "ok" ELSE "failed"]

\* Storage Backend calls that have been started and have not ended.
BackendCalls(kinds) ==
  BagCardinality([t \in {u \in BagToSet(tasks) :
                            u.pc = "backend" /\ u.kind \in kinds} |-> tasks[t]])

\* fs.existsSync(backupDir) is false again: the directory was removed from
\* outside the process, with the files it held.
RemoveBackupDirectory ==
  /\ app \in {"ready", "closed"}
  /\ dirExists
  /\ dirExists' = FALSE
  /\ files' = {path \in files : path[1] # "backups"}
  /\ reply' = NoReply
  /\ UNCHANGED <<backupSchedule, scheduled, tasks, liveDb, app>>

----------------------------------------------------------------------------
(* app.whenReady().then(createWindow) and app.on('activate') *)

\* BrowserWindow.getAllWindows().length === 0: the application has no
\* window, before createWindow has built one and after the window was closed.
NoWindow == app \in {"loading", "failed", "closed"}

\* What createWindow leaves of the process: mkdirSync throwing in
\* ensureDataDirectory() or in ensureBackupDirectory() leaves createWindow
\* before the window and the menu are built, so the process is without a
\* window as it was, with the menu of the window that was closed if there
\* was one.
WindowState(dataOk, mkdirOk) ==
  IF dataOk /\ ensureBackupDirectory(mkdirOk)
  THEN "ready"
  ELSE IF app = "closed" THEN "closed" ELSE "failed"

\* createWindow, called when the application is ready and again on
\* 'activate' whenever there is no window; dataOk: ensureDataDirectory() did
\* not throw, so ensureBackupDirectory() is called after it.  An exception
\* leaves createWindow and the handler that called it.
CreateWindow(dataOk, mkdirOk) ==
  /\ NoWindow
  /\ dirExists' = IF dataOk THEN ensureBackupDirectory(mkdirOk) ELSE dirExists
  /\ app' = WindowState(dataOk, mkdirOk)
  /\ reply' = [NoReply EXCEPT !.op = "window",
                              !.failed = CASE ~dataOk -> "data"
                                           [] ~ensureBackupDirectory(mkdirOk) -> "dir"
                                           [] OTHER -> "none",
                              !.thrown = (WindowState(dataOk, mkdirOk) # "ready")]
  /\ UNCHANGED <<backupSchedule, scheduled, tasks, files, liveDb>>

----------------------------------------------------------------------------
(* ipcMain.handle('backup-database') *)

\* Variant: no try/catch around the handler body, the exception escapes.
BackupErrorEscapes(t, step) ==
  [Reply("backup", {}, NoPath, NoId, step, t.local, "none") EXCEPT !.thrown = TRUE]

\* catch (error) { return { error: error.message } }
BackupError(t, step) ==
  Reply("backup", {"error"}, NoPath, NoId, step, t.local, "none")

\* return { success: true, path: result }
BackupSuccess(t) ==
  Reply("backup", {"success", "path"}, BackendBackupResult(t.path), NoId,
        "none", t.local, "none")

\* The segment after await DatabaseService.backup(backupPath).
BackupContinue(t, ok) ==
  IF ok THEN BackupSuccess(t) ELSE BackupError(t, "backend")

BackupStart(instant, mkdirOk) ==
  /\ app = "ready"
  /\ dirExists' = ensureBackupDirectory(mkdirOk)
  /\ LET t == Task("backup", "backend", BackupPath("gym-backup", instant),
                   FALSE, FALSE, "none", instant)
     IN IF ensureBackupDirectory(mkdirOk)
        THEN /\ tasks' = Suspend(t)
             /\ reply' = NoReply
        ELSE /\ tasks' = tasks
             /\ reply' = BackupError(t, "dir")
  /\ UNCHANGED <<backupSchedule, scheduled, files, liveDb, app>>

\* Variant: a backup that failed is asked of the Storage Backend again.
BackupDoneRetries(t, ok) ==
  /\ Alive
  /\ t.kind = "backup" /\ t.pc = "backend"
  /\ files' = BackendBackup(t.path, ok)
  /\ IF ok
     THEN /\ tasks' = Resume(t, {})
          /\ reply' = BackupContinue(BackendEnded(t, ok), ok)
     ELSE /\ tasks' = Resume(t, {BackendEnded(t, ok)})
          /\ reply' = NoReply
  /\ UNCHANGED <<backupSchedule, scheduled, dirExists, liveDb, app>>

BackupDone(t, ok) ==
  /\ Alive
  /\ t.kind = "backup" /\ t.pc = "backend"
  /\ files' = BackendBackup(t.path, ok)
  /\ tasks' = Resume(t, {})
  /\ reply' = BackupContinue(BackendEnded(t, ok), ok)
  /\ UNCHANGED <<backupSchedule, scheduled, dirExists, liveDb, app>>

----------------------------------------------------------------------------
(* setupGoogleDrive and uploadToGoogleDrive *)

\* setupGoogleDrive catches whatever the client library throws and returns
\* null: TRUE when it returned a drive.
setupGoogleDrive(authOk) == authOk

\* Variant: the flag alone decides, credentials or not.
WantsUploadFlagOnly(t) == t.flag

\* if (options.uploadToDrive && options.driveCredentials)
WantsUpload(t) == t.flag /\ t.creds

----------------------------------------------------------------------------
(* ipcMain.handle('backup-database-enhanced') *)

\* The outer catch: return { error: error.message }
EnhancedError(t, step) ==
  Reply("enhanced", {"error"}, NoPath, NoId, step, t.local, "none")

\* return { success: true, path: backupPath, driveFileId: driveFileId }
EnhancedSuccess(t, id, step, remote) ==
  Reply("enhanced", {"success", "path", "driveFileId"}, t.path, id, step,
        t.local, remote)

\* Variant: no inner try/catch, the upload failure reaches the outer catch.
EnhancedUploadRethrown(t) ==
  Reply("enhanced", {"error"}, NoPath, NoId, "upload", t.local, "failed")

\* The inner catch (driveError): the failure is logged and driveFileId stays null.
EnhancedUploadFailed(t) == EnhancedSuccess(t, NoId, "upload", "failed")

\* Variant: a Drive client that cannot be set up fails the request.
EnhancedAfterBackupAuthFatal(t, authOk) ==
  IF WantsUpload(t)
  THEN IF setupGoogleDrive(authOk)
       THEN [next |-> {[t EXCEPT !.pc = "upload"]}, reply |-> NoReply]
       ELSE [next |-> {}, reply |-> EnhancedError(t, "drive")]
  ELSE [next |-> {}, reply |-> EnhancedSuccess(t, NoId, "none", "none")]

\* await DatabaseService.backup(backupPath) has ended without throwing:
\* the invocation goes on to the upload, or returns.
EnhancedAfterBackup(t, authOk) ==
  IF WantsUpload(t)
  THEN IF setupGoogleDrive(authOk)
       THEN [next |-> {[t EXCEPT !.pc = "upload"]}, reply |-> NoReply]
       ELSE [next |-> {}, reply |-> EnhancedSuccess(t, NoId, "drive", "none")]
  ELSE [next |-> {}, reply |-> EnhancedSuccess(t, NoId, "none", "none")]

\* Variant: the failure of the backup is swallowed and the upload goes on.
EnhancedContinueAnyway(t, ok, authOk) == EnhancedAfterBackup(t, authOk)

\* The segment after await DatabaseService.backup(backupPath).
EnhancedContinue(t, ok, authOk) ==
  IF ok
  THEN EnhancedAfterBackup(t, authOk)
  ELSE [next |-> {}, reply |-> EnhancedError(t, "backend")]

\* The options object of a request: customPath (NoPath for none, which is
\* what the default {} has), uploadToDrive and driveCredentials.
Options(customPath, flag, creds) ==
  [customPath |-> customPath, uploadToDrive |-> flag, driveCredentials |-> creds]

\* null passed as options: the default {} stands in for undefined only.
NullOptions == [null |-> TRUE]

\* The handler up to await DatabaseService.backup(backupPath).  Reading
\* options.customPath of null throws inside the try: the catch logs and
\* returns { error } before ensureBackupDirectory or the Storage Backend
\* is called.
EnhancedStart(options, instant, mkdirOk) ==
  /\ app = "ready"
  /\ IF options = NullOptions
     THEN /\ dirExists' = dirExists
          /\ tasks' = tasks
          /\ reply' = EnhancedError(Task("enhanced", "backend", NoPath, FALSE,
                                         FALSE, "none", 0), "options")
     ELSE IF options.customPath # NoPath
     THEN /\ dirExists' = dirExists
          /\ tasks' = Suspend(Task("enhanced", "backend", options.customPath,
                                   options.uploadToDrive,
                                   options.driveCredentials, "none", 0))
          /\ reply' = NoReply
     ELSE /\ dirExists' = ensureBackupDirectory(mkdirOk)
          /\ LET t == Task("enhanced", "backend",
                           BackupPath("gym-backup", instant),
                           options.uploadToDrive, options.driveCredentials,
                           "none", instant)
             IN IF ensureBackupDirectory(mkdirOk)
                THEN /\ tasks' = Suspend(t)
                     /\ reply' = NoReply
                ELSE /\ tasks' = tasks
                     /\ reply' = EnhancedError(t, "dir")
  /\ UNCHANGED <<backupSchedule, scheduled, files, liveDb, app>>

EnhancedBackupDone(t, ok, authOk) ==
  /\ Alive
  /\ t.kind = "enhanced" /\ t.pc = "backend"
  /\ files' = BackendBackup(t.path, ok)
  /\ tasks' = Resume(t, EnhancedContinue(BackendEnded(t, ok), ok, authOk).next)
  /\ reply' = EnhancedContinue(BackendEnded(t, ok), ok, authOk).reply
  /\ UNCHANGED <<backupSchedule, scheduled, dirExists, liveDb, app>>

EnhancedUploadDone(t, ok) ==
  /\ Alive
  /\ t.kind = "enhanced" /\ t.pc = "upload"
  /\ tasks' = Resume(t, {})
  /\ reply' = IF ok
              THEN EnhancedSuccess(t, DriveId, "none", "ok")
              ELSE EnhancedUploadFailed(t)
  /\ UNCHANGED <<backupSchedule, scheduled, dirExists, files, liveDb, app>>

----------------------------------------------------------------------------
(* ipcMain.handle('restore-database') *)

\* Variant: the catch reports the restore as done.
RestoreErrorSwallowed(t, step) ==
  Reply("restore", {"success", "needRestart"}, t.path, NoId, step, t.local,
        "none")

\* catch (error) { return { error: error.message } }
RestoreError(t, step) ==
  Reply("restore", {"error"}, t.path, NoId, step, t.local, "none")

\* return { canceled: true }
RestoreCanceled == Reply("restore", {"canceled"}, NoPath, NoId, "none", "none", "none")

\* Variant: the result does not tell the caller that a restart is needed.
RestoreSuccessSilent(t) ==
  Reply("restore", {"success"}, t.path, NoId, "none", t.local, "none")

\* return { success: true, needRestart: true }
RestoreSuccess(t) ==
  Reply("restore", {"success", "needRestart"}, t.path, NoId, "none", t.local,
        "none")

\* The segment after await DatabaseService.restore(backupPath).
RestoreContinue(t, ok) ==
  IF ok THEN RestoreSuccess(t) ELSE RestoreError(t, "backend")

\* What the file picker can resolve to: canceled (or no path), a path, or a
\* rejection of the dialog promise.
DialogOutcomes == {"canceled", "picked", "rejected"}
RestoreChoices == files \cup {MissingPath}

RestoreStart(mkdirOk) ==
  /\ app = "ready"
  /\ dirExists' = ensureBackupDirectory(mkdirOk)
  /\ LET t == Task("restore", "dialog", NoPath, FALSE, FALSE, "none", 0)
     IN IF ensureBackupDirectory(mkdirOk)
        THEN /\ tasks' = Suspend(t)
             /\ reply' = NoReply
        ELSE /\ tasks' = tasks
             /\ reply' = RestoreError(t, "dir")
  /\ UNCHANGED <<backupSchedule, scheduled, files, liveDb, app>>

RestoreDialogDone(t, outcome, picked) ==
  /\ Alive
  /\ t.kind = "restore" /\ t.pc = "dialog"
  /\ CASE outcome = "canceled" ->
            /\ tasks' = Resume(t, {})
            /\ reply' = RestoreCanceled
       [] outcome = "rejected" ->
            /\ tasks' = Resume(t, {})
            /\ reply' = RestoreError(t, "dialog")
       [] OTHER ->
            /\ tasks' = Resume(t, {[t EXCEPT !.pc = "backend", !.path = picked]})
            /\ reply' = NoReply
  /\ UNCHANGED <<backupSchedule, scheduled, dirExists, files, liveDb, app>>

\* Variant: a restore gives the schedule up, since a restart is to follow.
RestoreDoneDropsSchedule(t, ok) ==
  /\ Alive
  /\ t.kind = "restore" /\ t.pc = "backend"
  /\ liveDb' = BackendRestore(t.path, ok)
  /\ tasks' = Resume(t, {})
  /\ reply' = RestoreContinue(BackendEnded(t, BackendRestoreOk(t.path, ok)),
                              BackendRestoreOk(t.path, ok))
  /\ scheduled' = StopPrevious.running
  /\ backupSchedule' = NoTrigger
  /\ UNCHANGED <<dirExists, files, app>>

RestoreDone(t, ok) ==
  /\ Alive
  /\ t.kind = "restore" /\ t.pc = "backend"
  /\ liveDb' = BackendRestore(t.path, ok)
  /\ tasks' = Resume(t, {})
  /\ reply' = RestoreContinue(BackendEnded(t, BackendRestoreOk(t.path, ok)),
                              BackendRestoreOk(t.path, ok))
  /\ UNCHANGED <<backupSchedule, scheduled, dirExists, files, app>>

----------------------------------------------------------------------------
(* The click handlers of the menu: backup and restore *)

\* A click handler returns nothing (no keys); it tells the user with
\* dialog.showMessageBox ("message") or, from its catch, with console.error
\* and dialog.showErrorBox ("error").
MenuReport(t, step, shown) ==
  [Reply(t.kind, {}, t.path, NoId, step, t.local, "none") EXCEPT !.dialog = shown]

\* Menu.setApplicationMenu(menu): the menu createWindow has set stays when
\* the window is closed and the process goes on.
MenuSet == app \in {"ready", "closed"}

\* The click of the backup item up to await DatabaseService.backup(backupPath).
MenuBackupStart(instant, mkdirOk) ==
  /\ MenuSet
  /\ dirExists' = ensureBackupDirectory(mkdirOk)
  /\ LET t == Task("menu-backup", "backend", MenuBackupPath(instant), FALSE,
                   FALSE, "none", instant)
     IN IF ensureBackupDirectory(mkdirOk)
        THEN /\ tasks' = Suspend(t)
             /\ reply' = NoReply
        ELSE /\ tasks' = tasks
             /\ reply' = MenuReport([t EXCEPT !.path = NoPath], "dir", "error")
  /\ UNCHANGED <<backupSchedule, scheduled, files, liveDb, app>>

\* The segment after await DatabaseService.backup(backupPath): the message
\* box names backupPath, the catch shows the error box.
MenuBackupDone(t, ok) ==
  /\ Alive
  /\ t.kind = "menu-backup" /\ t.pc = "backend"
  /\ files' = BackendBackup(t.path, ok)
  /\ tasks' = Resume(t, {})
  /\ reply' = IF ok
              THEN MenuReport(BackendEnded(t, ok), "none", "message")
              ELSE MenuReport(BackendEnded(t, ok), "backend", "error")
  /\ UNCHANGED <<backupSchedule, scheduled, dirExists, liveDb, app>>

\* The click of the restore item up to await dialog.showOpenDialog.
MenuRestoreStart(mkdirOk) ==
  /\ MenuSet
  /\ dirExists' = ensureBackupDirectory(mkdirOk)
  /\ LET t == Task("menu-restore", "dialog", NoPath, FALSE, FALSE, "none", 0)
     IN IF ensureBackupDirectory(mkdirOk)
        THEN /\ tasks' = Suspend(t)
             /\ reply' = NoReply
        ELSE /\ tasks' = tasks
             /\ reply' = MenuReport(t, "dir", "error")
  /\ UNCHANGED <<backupSchedule, scheduled, files, liveDb, app>>

\* if (filePaths && filePaths.length > 0): only the paths are looked at, not
\* result.canceled; with no path the handler ends and shows nothing; a
\* rejection of the dialog promise goes to the catch.
MenuRestoreDialogDone(t, outcome, picked) ==
  /\ Alive
  /\ t.kind = "menu-restore" /\ t.pc = "dialog"
  /\ CASE outcome = "rejected" ->
            /\ tasks' = Resume(t, {})
            /\ reply' = MenuReport(t, "dialog", "error")
       [] picked # NoPath ->
            /\ tasks' = Resume(t, {[t EXCEPT !.pc = "backend", !.path = picked]})
            /\ reply' = NoReply
       [] OTHER ->
            /\ tasks' = Resume(t, {})
            /\ reply' = MenuReport(t, "none", "none")
  /\ UNCHANGED <<backupSchedule, scheduled, dirExists, files, liveDb, app>>

\* The segment after await DatabaseService.restore(filePaths[0]): the message
\* box with the buttons 'restart now' and 'later' is shown and the handler
\* ends; the .then callback of the box stays behind ("prompt").
MenuRestoreDone(t, ok) ==
  /\ Alive
  /\ t.kind = "menu-restore" /\ t.pc = "backend"
  /\ liveDb' = BackendRestore(t.path, ok)
  /\ IF BackendRestoreOk(t.path, ok)
     THEN /\ tasks' = Resume(t, {[BackendEnded(t, TRUE) EXCEPT !.pc = "prompt"]})
          /\ reply' = MenuReport(BackendEnded(t, TRUE), "none", "message")
     ELSE /\ tasks' = Resume(t, {})
          /\ reply' = MenuReport(BackendEnded(t, FALSE), "backend", "error")
  /\ UNCHANGED <<backupSchedule, scheduled, dirExists, files, app>>

\* The buttons of the message box: 0 is 'restart now', 1 is 'later'.
Responses == {0, 1}

\* if (response === 0) { app.relaunch(); app.exit(); }: the calls made.
RestartCalls(response) ==
  IF response = 0 THEN <<"relaunch", "exit">> ELSE <<>>

\* The .then callback of the message box.  app.exit() ends the process at
\* once: will-quit is not emitted, so neither backupSchedule.stop() nor
\* DatabaseService.close() is called.
MenuRestorePromptDone(t, response) ==
  /\ Alive
  /\ t.kind = "menu-restore" /\ t.pc = "prompt"
  /\ tasks' = Resume(t, {})
  /\ app' = IF "exit" \in {RestartCalls(response)[i] :
                             i \in DOMAIN RestartCalls(response)}
            THEN "exited" ELSE app
  /\ reply' = [NoReply EXCEPT !.op = "menu-restart",
                              !.calls = RestartCalls(response)]
  /\ UNCHANGED <<backupSchedule, scheduled, dirExists, files, liveDb>>

\* app.relaunch() has asked for a new instance when this one exits: main.cjs
\* is loaded anew, backupSchedule is null and nothing is scheduled or
\* suspended; the disk is as the process that exited left it.
Relaunch ==
  /\ app = "exited"
  /\ backupSchedule' = NoTrigger
  /\ scheduled' = EmptyBag
  /\ tasks' = EmptyBag
  /\ app' = "loading"
  /\ reply' = NoReply
  /\ UNCHANGED <<dirExists, files, liveDb>>

----------------------------------------------------------------------------
(* ipcMain.handle('repair-database') *)

\* return { success: true } / catch: return { error: error.message }
RepairReply(t, ok) ==
  IF ok
  THEN Reply("repair", {"success"}, NoPath, NoId, "none", t.local, "none")
  ELSE Reply("repair", {"error"}, NoPath, NoId, "backend", t.local, "none")

RepairStart ==
  /\ app = "ready"
  /\ tasks' = Suspend(Task("repair", "backend", NoPath, FALSE, FALSE,
                           "none", 0))
  /\ reply' = NoReply
  /\ UNCHANGED <<backupSchedule, scheduled, dirExists, files, liveDb, app>>

RepairDone(t, ok) ==
  /\ Alive
  /\ t.kind = "repair" /\ t.pc = "backend"
  /\ tasks' = Resume(t, {})
  /\ reply' = RepairReply(BackendEnded(t, ok), ok)
  /\ UNCHANGED <<backupSchedule, scheduled, dirExists, files, liveDb, app>>

----------------------------------------------------------------------------
(* ipcMain.handle('choose-backup-path') *)

ChooseReply(outcome) ==
  CASE outcome = "canceled" ->
         Reply("choose", {"canceled"}, NoPath, NoId, "none", "none", "none")
    [] outcome = "rejected" ->
         Reply("choose", {"error"}, NoPath, NoId, "dialog", "none", "none")
    [] OTHER ->
         Reply("choose", {"success", "filePath"}, CustomPath, NoId, "none",
               "none", "none")

ChooseStart ==
  /\ app = "ready"
  /\ tasks' = Suspend(Task("choose", "dialog", NoPath, FALSE, FALSE,
                           "none", 0))
  /\ reply' = NoReply
  /\ UNCHANGED <<backupSchedule, scheduled, dirExists, files, liveDb, app>>

ChooseDone(t, outcome) ==
  /\ Alive
  /\ t.kind = "choose" /\ t.pc = "dialog"
  /\ tasks' = Resume(t, {})
  /\ reply' = ChooseReply(outcome)
  /\ UNCHANGED <<backupSchedule, scheduled, dirExists, files, liveDb, app>>

----------------------------------------------------------------------------
(* The callback scheduleAutoBackup gives to cron.schedule *)

\* How a run of the callback ended: with console.error ("logged") when a
\* step failed, and never with an exception leaving the callback.
AutoOutcome(t, step, remote) ==
  Reply("auto", IF step = "none" THEN {} ELSE {"logged"}, t.path, NoId, step,
        t.local, remote)

\* Variant: the catch gives the schedule up with backupSchedule.stop().
AutoCatchStops == StopPrevious.running

\* The catch of the callback: console.error and nothing else, so node-cron
\* fires the same triggers after a run that failed.
AutoCatch == scheduled

\* What node-cron fires after a segment of the callback; step is what failed.
AutoScheduled(step) == IF step = "none" THEN scheduled ELSE AutoCatch

\* if (driveCredentials) after await DatabaseService.backup(backupPath)
AutoAfterBackup(t, authOk) ==
  IF t.creds
  THEN IF setupGoogleDrive(authOk)
       THEN [next |-> {[t EXCEPT !.pc = "upload"]}, reply |-> NoReply,
             step |-> "none"]
       ELSE [next |-> {}, reply |-> AutoOutcome(t, "drive", "none"),
             step |-> "none"]
  ELSE [next |-> {}, reply |-> AutoOutcome(t, "none", "none"), step |-> "none"]

\* The segment after await DatabaseService.backup(backupPath).
AutoContinue(t, ok, authOk) ==
  IF ok
  THEN AutoAfterBackup(t, authOk)
  ELSE [next |-> {}, step |-> "backend",
        reply |-> AutoOutcome(t, "backend", "none")]

\* A trigger fires: its callback runs up to its first await.
AutoFire(trigger, instant, mkdirOk) ==
  /\ Alive
  /\ BagIn(trigger, scheduled)
  /\ dirExists' = ensureBackupDirectory(mkdirOk)
  /\ LET t == Task("auto", "backend", BackupPath("gym-auto-backup", instant),
                   trigger.creds, trigger.creds, "none", instant)
     IN IF ensureBackupDirectory(mkdirOk)
        THEN /\ tasks' = Suspend(t)
             /\ reply' = NoReply
             /\ scheduled' = scheduled
        ELSE /\ tasks' = tasks
             /\ reply' = AutoOutcome([t EXCEPT !.path = NoPath], "dir", "none")
             /\ scheduled' = AutoScheduled("dir")
  /\ UNCHANGED <<backupSchedule, files, liveDb, app>>

AutoBackupDone(t, ok, authOk) ==
  /\ Alive
  /\ t.kind = "auto" /\ t.pc = "backend"
  /\ files' = BackendBackup(t.path, ok)
  /\ tasks' = Resume(t, AutoContinue(BackendEnded(t, ok), ok, authOk).next)
  /\ reply' = AutoContinue(BackendEnded(t, ok), ok, authOk).reply
  /\ scheduled' = AutoScheduled(AutoContinue(BackendEnded(t, ok), ok, authOk).step)
  /\ UNCHANGED <<backupSchedule, dirExists, liveDb, app>>

AutoUploadDone(t, ok) ==
  /\ Alive
  /\ t.kind = "auto" /\ t.pc = "upload"
  /\ tasks' = Resume(t, {})
  /\ reply' = IF ok
              THEN AutoOutcome(t, "none", "ok")
              ELSE AutoOutcome(t, "upload", "failed")
  /\ scheduled' = AutoScheduled(IF ok THEN "none" ELSE "upload")
  /\ UNCHANGED <<backupSchedule, dirExists, files, liveDb, app>>

----------------------------------------------------------------------------
(* ipcMain.handle('login') *)

\* const saltRounds = 12
saltRounds == 12

\* The salts bcrypt draws, one for each call of bcrypt.hash.
Salts == {"saltA", "saltB", "saltC"}

\* bcrypt.hash(password, saltRounds) with the salt drawn for the call: the
\* version and the cost, the salt, and a digest that is different for every
\* other password and for every other salt.
Hash(password, salt) ==
  "$2b$" \o ToString(saltRounds) \o "$" \o salt \o "(" \o password \o ")"

\* bcrypt.compare(password, hash): the password hashed with the salt of the
\* stored hash gives the stored hash.
BcryptCompare(password, hash) ==
  \E salt \in Salts : Hash(password, salt) = hash

\* The rows of users joined with gyms: an active owner, an active coach and
\* a user who was deactivated, who has the password of the owner under
\* another salt.
UserRows ==
  { [username |-> "owner", password_hash |-> Hash("secret", "saltA"), role |-> "admin",
     is_active |-> "1", gym_name |-> "men", gym_type |-> "male"],
    [username |-> "coach", password_hash |-> Hash("letmein", "saltB"), role |-> "user",
     is_active |-> "1", gym_name |-> "women", gym_type |-> "female"],
    [username |-> "former", password_hash |-> Hash("secret", "saltC"), role |-> "user",
     is_active |-> "0", gym_name |-> "men", gym_type |-> "male"] }

Usernames == {"owner", "coach", "former", "nobody"}
Passwords == {"secret", "letmein", "wrong"}

\* SELECT u.*, g.name as gym_name, g.type as gym_type ...
\*   WHERE u.username = ? AND u.is_active = 1
QueryUsers(username) ==
  {row \in UserRows : row.username = username /\ row.is_active = "1"}

\* users[0]
FirstRow(rows) == CHOOSE row \in rows : TRUE

\* An object as the set of its properties, <<name, value>>.
Properties(row) == {<<name, row[name]>> : name \in DOMAIN row}

\* Variant: the row is sent as it was read.
SafeUserWithHash(row) == Properties(row)

\* delete userData.password_hash
SafeUser(row) == {property \in Properties(row) : property[1] # "password_hash"}

\* 'اسم المستخدم أو كلمة المرور غير صحيحة.' (user name or password wrong)
\* and 'حدث خطأ أثناء تسجيل الدخول.' (an error occurred during login)
InvalidMessage == "invalid username or password"
ErrorMessage == "error during login"

\* return { success: false, message }; check: "nouser" (no active user of
\* that name), "password" (bcrypt.compare said no) or "error" (the catch).
\* keys are the properties of the result; success is true in a result
\* that has a user and false in one that has a message.
LoginRejected(check) ==
  [Reply("login", {"success", "message"}, NoPath, NoId, check, "none", "none")
     EXCEPT !.message = IF check = "error" THEN ErrorMessage ELSE InvalidMessage,
            !.logged = (check = "error")]

\* return { success: true, user: userData }
LoginGranted(row) ==
  [Reply("login", {"success", "user"}, NoPath, NoId, "none", "none", "none")
     EXCEPT !.user = SafeUser(row)]

LoginTask(pc, username, password) ==
  [Task("login", pc, NoPath, FALSE, FALSE, "none", 0)
     EXCEPT !.args = <<username, password>>]

\* The handler up to await DatabaseService.query(query, [username]).
LoginStart(username, password) ==
  /\ app = "ready"
  /\ tasks' = Suspend(LoginTask("query", username, password))
  /\ reply' = NoReply
  /\ UNCHANGED <<backupSchedule, scheduled, dirExists, files, liveDb, app>>

\* The query has ended: no row, or on to await bcrypt.compare.
LoginQueryDone(t, ok) ==
  /\ Alive
  /\ t.kind = "login" /\ t.pc = "query"
  /\ IF ~ok
     THEN /\ tasks' = Resume(t, {})
          /\ reply' = LoginRejected("error")
     ELSE IF QueryUsers(t.args[1]) = {}
          THEN /\ tasks' = Resume(t, {})
               /\ reply' = LoginRejected("nouser")
          ELSE /\ tasks' = Resume(t, {[t EXCEPT !.pc = "compare"]})
               /\ reply' = NoReply
  /\ UNCHANGED <<backupSchedule, scheduled, dirExists, files, liveDb, app>>

\* bcrypt.compare has ended.
LoginCompareDone(t, ok) ==
  /\ Alive
  /\ t.kind = "login" /\ t.pc = "compare"
  /\ tasks' = Resume(t, {})
  /\ reply' =
       IF ~ok
       THEN LoginRejected("error")
       ELSE IF BcryptCompare(t.args[2], FirstRow(QueryUsers(t.args[1])).password_hash)
            THEN LoginGranted(FirstRow(QueryUsers(t.args[1])))
            ELSE LoginRejected("password")
  /\ UNCHANGED <<backupSchedule, scheduled, dirExists, files, liveDb, app>>

----------------------------------------------------------------------------
(* app.on('will-quit') *)

\* Variant: the Storage Backend is closed before the trigger is stopped.
QuitCallsCloseFirst ==
  <<"close">> \o (IF backupSchedule # NoTrigger THEN <<"stop">> ELSE <<>>)

\* if (backupSchedule) { backupSchedule.stop(); }  DatabaseService.close();
\* the calls made, in the order of the statements.
QuitCalls ==
  (IF backupSchedule # NoTrigger THEN <<"stop">> ELSE <<>>) \o <<"close">>

\* Variant: stopping the trigger at shutdown cancels the runs in flight.
WillQuitCancelsRuns ==
  /\ Alive /\ app # "quit"
  /\ scheduled' = StopPrevious.running
  /\ app' = "quit"
  /\ reply' = [NoReply EXCEPT !.op = "quit", !.stops = StopPrevious.calls,
                              !.calls = QuitCalls]
  /\ tasks' = [t \in {u \in BagToSet(tasks) : u.kind # "auto"} |-> tasks[t]]
  /\ UNCHANGED <<backupSchedule, dirExists, files, liveDb>>

\* quit: DatabaseService.close() has been called.
WillQuit ==
  /\ Alive /\ app # "quit"
  /\ scheduled' = StopPrevious.running
  /\ app' = "quit"
  /\ reply' = [NoReply EXCEPT !.op = "quit", !.stops = StopPrevious.calls,
                              !.calls = QuitCalls]
  /\ UNCHANGED <<backupSchedule, tasks, dirExists, files, liveDb>>

\* process.platform
Platforms == {"darwin", "win32"}

\* app.on('window-all-closed'): the window has been closed.  On darwin the
\* process goes on without a window, its triggers and the invocations in
\* flight with it; elsewhere app.quit() is called and will-quit follows.
WindowAllClosed(platform) ==
  /\ app = "ready"
  /\ IF platform # "darwin"
     THEN WillQuit
     ELSE /\ app' = "closed"
          /\ reply' = [NoReply EXCEPT !.op = "window-all-closed"]
          /\ UNCHANGED <<backupSchedule, scheduled, tasks, dirExists, files,
                         liveDb>>

----------------------------------------------------------------------------
(* The system *)

\* What the backup directory can hold when main.cjs is loaded: nothing on
\* the first run, or what an earlier run left.
EarlierFiles == IF dirExists THEN {{}, {EarlierBackup}} ELSE {{}}

\* main.cjs has been loaded: let backupSchedule = null, no window yet; the
\* disk is as the first run finds it or as an earlier run left it.
Init ==
  /\ backupSchedule = NoTrigger
  /\ scheduled = EmptyBag
  /\ tasks = EmptyBag
  /\ dirExists \in BOOLEAN
  /\ files \in EarlierFiles
  /\ liveDb = Original
  /\ app = "loading"
  /\ reply = NoReply

Suspended == BagToSet(tasks)

\* mkdirSync runs, and can throw, only when the directory is absent.
MkdirOutcomes == IF MkdirCalled THEN BOOLEAN ELSE {TRUE}

\* What a renderer can pass as options: null, or an object with or without
\* a customPath, with or without uploadToDrive and driveCredentials.
OptionsInputs ==
  {NullOptions} \cup
  {Options(customPath, flag, creds) :
     customPath \in {NoPath, CustomPath}, flag \in BOOLEAN, creds \in BOOLEAN}

\* new Date() is read only when options are given without a customPath.
InstantsFor(options) ==
  IF options # NullOptions /\ options.customPath = NoPath THEN Instants ELSE {0}

\* ensureBackupDirectory is called only when the clock is read.
MkdirOutcomesFor(options) ==
  IF options # NullOptions /\ options.customPath = NoPath
  THEN MkdirOutcomes ELSE {TRUE}

\* setupGoogleDrive runs only when the backup succeeded and an upload is wanted.
AuthOutcomes(wanted) == IF wanted THEN BOOLEAN ELSE {TRUE}

\* A path is picked only when the dialog is not canceled.
PickedFor(outcome) == IF outcome = "picked" THEN RestoreChoices ELSE {NoPath}

\* Each group is one handler: its first segment, which starts an invocation
\* while fewer than `limit` are suspended, and the segments that resume it.

BackupOps(limit) ==
  \/ /\ InFlight < limit
     /\ \E i \in Instants, mkdirOk \in MkdirOutcomes : BackupStart(i, mkdirOk)
  \/ \E t \in Suspended : \E ok \in BackupOutcomes(t.path) : BackupDone(t, ok)

EnhancedOps(limit) ==
  \/ /\ InFlight < limit
     /\ \E options \in OptionsInputs :
          \E i \in InstantsFor(options), mkdirOk \in MkdirOutcomesFor(options) :
            EnhancedStart(options, i, mkdirOk)
  \/ \E t \in Suspended :
       \E ok \in BackupOutcomes(t.path) :
         \E authOk \in AuthOutcomes(ok /\ WantsUpload(t)) :
           EnhancedBackupDone(t, ok, authOk)
  \/ \E t \in Suspended, ok \in BOOLEAN : EnhancedUploadDone(t, ok)

RestoreOps(limit) ==
  \/ /\ InFlight < limit
     /\ \E mkdirOk \in MkdirOutcomes : RestoreStart(mkdirOk)
  \/ \E t \in Suspended, outcome \in DialogOutcomes :
       \E picked \in PickedFor(outcome) : RestoreDialogDone(t, outcome, picked)
  \/ \E t \in Suspended, ok \in BOOLEAN : RestoreDone(t, ok)

MenuBackupOps(limit) ==
  \/ /\ InFlight < limit
     /\ \E i \in Instants, mkdirOk \in MkdirOutcomes : MenuBackupStart(i, mkdirOk)
  \/ \E t \in Suspended : \E ok \in BackupOutcomes(t.path) : MenuBackupDone(t, ok)

MenuRestoreOps(limit) ==
  \/ /\ InFlight < limit
     /\ \E mkdirOk \in MkdirOutcomes : MenuRestoreStart(mkdirOk)
  \/ \E t \in Suspended, outcome \in DialogOutcomes :
       \E picked \in PickedFor(outcome) : MenuRestoreDialogDone(t, outcome, picked)
  \/ \E t \in Suspended, ok \in BOOLEAN : MenuRestoreDone(t, ok)
  \/ \E t \in Suspended, response \in Responses : MenuRestorePromptDone(t, response)

RepairOps(limit) ==
  \/ /\ InFlight < limit
     /\ RepairStart
  \/ \E t \in Suspended, ok \in BOOLEAN : RepairDone(t, ok)

ChooseOps(limit) ==
  \/ /\ InFlight < limit
     /\ ChooseStart
  \/ \E t \in Suspended, outcome \in DialogOutcomes : ChooseDone(t, outcome)

LoginOps(limit) ==
  \/ /\ InFlight < limit
     /\ \E username \in Usernames, password \in Passwords :
          LoginStart(username, password)
  \/ \E t \in Suspended, ok \in BOOLEAN : LoginQueryDone(t, ok)
  \/ \E t \in Suspended, ok \in BOOLEAN : LoginCompareDone(t, ok)

SetupOp ==
  \E schedule \in ScheduleInputs, creds \in BOOLEAN :
    SetupAutoBackup(schedule, creds)

\* The runs of the scheduled callback.
RunOps(limit) ==
  \/ /\ InFlight < limit
     /\ \E trigger \in BagToSet(scheduled), at \in Instants,
           mkdirOk \in MkdirOutcomes :
          AutoFire(trigger, at, mkdirOk)
  \/ \E t \in Suspended :
       \E ok \in BackupOutcomes(t.path) :
         \E authOk \in AuthOutcomes(ok /\ t.creds) :
           AutoBackupDone(t, ok, authOk)
  \/ \E t \in Suspended, ok \in BOOLEAN : AutoUploadDone(t, ok)

\* The application gets ready, or is activated while it has no window.
WindowOp ==
  \E dataOk \in BOOLEAN, mkdirOk \in MkdirOutcomes : CreateWindow(dataOk, mkdirOk)

\* The window is closed.
CloseOp == \E platform \in Platforms : WindowAllClosed(platform)

\* setup-auto-backup asked for a daily schedule.
SetupDailyOp == \E creds \in BOOLEAN : SetupAutoBackup("daily", creds)

\* The whole process.
Next ==
  \/ WindowOp
  \/ CloseOp
  \/ BackupOps(MaxTasks)
  \/ EnhancedOps(MaxTasks)
  \/ RestoreOps(MaxTasks)
  \/ RepairOps(MaxTasks)
  \/ ChooseOps(MaxTasks)
  \/ LoginOps(MaxTasks)
  \/ MenuBackupOps(MaxTasks)
  \/ MenuRestoreOps(MaxTasks)
  \/ SetupOp
  \/ RunOps(MaxTasks)
  \/ RemoveBackupDirectory
  \/ WillQuit
  \/ Relaunch

Spec == Init /\ [][Next]_vars

\* The schedule and the ways the process ends or loses its window:
\* setup-auto-backup, the scheduled runs, window-all-closed, will-quit, and
\* the restore of the menu with its restart.
NextSchedule ==
  \/ WindowOp
  \/ CloseOp
  \/ SetupOp
  \/ RunOps(MaxTasks)
  \/ MenuRestoreOps(MaxTasks)
  \/ RemoveBackupDirectory
  \/ WillQuit
  \/ Relaunch

SpecSchedule == Init /\ [][NextSchedule]_vars

\* The requests of the renderer.
NextRequests ==
  \/ WindowOp
  \/ BackupOps(MaxTasks)
  \/ EnhancedOps(MaxTasks)
  \/ RestoreOps(MaxTasks)
  \/ RepairOps(MaxTasks)
  \/ ChooseOps(MaxTasks)
  \/ SetupOp
  \/ RemoveBackupDirectory

SpecRequests == Init /\ [][NextRequests]_vars

\* The two ways a backup file is written with an upload after it:
\* backup-database-enhanced and the scheduled run.
NextBackups ==
  \/ WindowOp
  \/ EnhancedOps(MaxTasks)
  \/ SetupOp
  \/ RunOps(MaxTasks)
  \/ RemoveBackupDirectory

SpecBackups == Init /\ [][NextBackups]_vars

\* One invocation more in flight: a scheduled run beside the requests and
\* the menu items that call the Storage Backend.
NextOverlap ==
  \/ WindowOp
  \/ BackupOps(MaxTasks + 1)
  \/ RestoreOps(MaxTasks + 1)
  \/ RepairOps(MaxTasks + 1)
  \/ MenuBackupOps(MaxTasks + 1)
  \/ MenuRestoreOps(MaxTasks + 1)
  \/ SetupDailyOp
  \/ RunOps(MaxTasks + 1)

SpecOverlap == Init /\ [][NextOverlap]_vars

\* One invocation more in flight: the requests and the backup of the menu
\* among themselves.
NextRequestsOverlap ==
  \/ WindowOp
  \/ BackupOps(MaxTasks + 1)
  \/ EnhancedOps(MaxTasks + 1)
  \/ RestoreOps(MaxTasks + 1)
  \/ RepairOps(MaxTasks + 1)
  \/ MenuBackupOps(MaxTasks + 1)

SpecRequestsOverlap == Init /\ [][NextRequestsOverlap]_vars

\* Backup and restore, of the renderer and of the menu, beside the schedule,
\* the removal of the directory, window-all-closed, will-quit and the restart.
NextRestore ==
  \/ WindowOp
  \/ CloseOp
  \/ BackupOps(MaxTasks)
  \/ RestoreOps(MaxTasks)
  \/ MenuBackupOps(MaxTasks)
  \/ MenuRestoreOps(MaxTasks)
  \/ SetupDailyOp
  \/ RemoveBackupDirectory
  \/ WillQuit
  \/ Relaunch

SpecRestore == Init /\ [][NextRestore]_vars

\* backup-database-enhanced with choose-backup-path, which gives the
\* renderer the customPath.
NextEnhanced ==
  \/ WindowOp
  \/ EnhancedOps(MaxTasks)
  \/ ChooseOps(MaxTasks)
  \/ RemoveBackupDirectory

SpecEnhanced == Init /\ [][NextEnhanced]_vars

\* One invocation more in flight: login requests among themselves.
NextLogin ==
  \/ WindowOp
  \/ LoginOps(MaxTasks + 1)

SpecLogin == Init /\ [][NextLogin]_vars

----------------------------------------------------------------------------
(* Properties *)

ValidFrequencies == {"manual", "daily", "weekly", "monthly"}
\* What the user asks for: the requests of the renderer that call the
\* Storage Backend, and the two items of the menu.
UserKinds ==
  {"backup", "enhanced", "restore", "repair", "menu-backup", "menu-restore"}
FacadeOps == {"backup", "enhanced", "restore", "repair", "setup", "choose"}

\* C1: at most one Schedule Trigger is active at any time: node-cron fires no
\* trigger but the one backupSchedule holds, so every earlier trigger has been
\* stopped, and a setup call with a non-manual frequency leaves exactly one
\* active trigger, also when a trigger was active before the call.
C1_AtMostOneActiveTrigger ==
  /\ Active <= 1
  /\ \A trigger \in BagToSet(scheduled) : trigger = backupSchedule
  /\ (reply.op = "setup" /\ StartsTrigger(reply.arg)) =>
       (Active = 1 /\ BagIn(backupSchedule, scheduled))

\* Two successive calls with non-manual frequencies: the second has stopped
\* the trigger of the first and one trigger is active.
C1_Witness ==
  /\ reply.op = "setup"
  /\ StartsTrigger(reply.arg)
  /\ reply.stops = 1
  /\ Active = 1

\* C2: a setup call with 'manual' made while a trigger is held calls stop()
\* exactly once, leaves no trigger active and backupSchedule null; and a
\* scheduled run starts only from the trigger backupSchedule holds, so none
\* starts while no schedule is configured.
C2_ManualStopsSchedule ==
  /\ [][(backupSchedule # NoTrigger /\
          \E creds \in BOOLEAN : SetupAutoBackup("manual", creds))
         => (reply'.stops = 1 /\ Active' = 0 /\ backupSchedule' = NoTrigger)]_vars
  /\ [][\A trigger \in BagToSet(scheduled) :
          (\E at \in Instants, mkdirOk \in BOOLEAN : AutoFire(trigger, at, mkdirOk))
            => (backupSchedule # NoTrigger /\ trigger = backupSchedule)]_vars

\* 'manual' after a non-manual schedule: one stop(), nothing active.
C2_Witness ==
  /\ reply.op = "setup"
  /\ reply.arg = "manual"
  /\ reply.stops = 1
  /\ Active = 0
  /\ backupSchedule = NoTrigger

\* C3: when the upload of backup-database-enhanced throws after the local
\* backup succeeded, the result is success with driveFileId null and the
\* path of the local backup file; it is not an error.  The file was written
\* when the Storage Backend call ended, and the step in which the upload
\* fails leaves the files on disk as they are.
C3_UploadFailureKeepsLocalBackup ==
  /\ [](reply.op = "enhanced" /\ reply.failed = "upload" =>
          /\ "success" \in reply.keys
          /\ "error" \notin reply.keys
          /\ reply.driveFileId = NoId
          /\ reply.local = "ok"
          /\ reply.path # NoPath)
  /\ [][(reply'.op = "enhanced" /\ reply'.failed = "upload") =>
          /\ files' = files
          /\ \E t \in Suspended :
               t.kind = "enhanced" /\ t.pc = "upload" /\ t.path = reply'.path]_vars
  /\ [][\A t \in Suspended, authOk \in BOOLEAN :
          EnhancedBackupDone(t, TRUE, authOk) => t.path \in files']_vars

C3_Witness ==
  /\ reply.op = "enhanced"
  /\ reply.failed = "upload"
  /\ reply.remote = "failed"
  /\ reply.path \in files

\* C4: in backup-database-enhanced and in the scheduled run an upload is
\* awaited, or has ended, only after the Storage Backend's backup call of the
\* same invocation ended successfully; when that call failed no upload was
\* attempted and the request's result is an error.  An invocation goes to
\* its upload in the step that wrote its file.
C4_UploadOnlyAfterLocalBackup ==
  /\ [](\A t \in Suspended : t.pc = "upload" => t.local = "ok")
  /\ [][\A t \in BagToSet(tasks') :
          (t.pc = "upload" /\ ~BagIn(t, tasks)) => t.path \in files']_vars
  /\ [](reply.remote # "none" => reply.local = "ok")
  /\ [](reply.local = "failed" =>
          /\ reply.remote = "none"
          /\ reply.op = "enhanced" => reply.keys = {"error"}
          /\ reply.op = "auto" => reply.keys = {"logged"})

\* The local backup of a request failed: an error, and no upload.
C4_Witness ==
  /\ reply.op = "enhanced"
  /\ reply.local = "failed"
  /\ reply.keys = {"error"}
  /\ \E trigger \in BagToSet(scheduled) : trigger.creds

\* C5: a scheduled run's Storage Backend call and a user-triggered backup,
\* restore or repair call are never in flight together.
C5_ScheduledNeverOverlapsRequest ==
  ~(BackendCalls({"auto"}) >= 1 /\ BackendCalls(UserKinds) >= 1)

\* C6: the Storage Backend calls of on-demand requests are serialized: at
\* most one is in flight.
C6_RequestsSerialized == BackendCalls(UserKinds) <= 1

\* C7: a failure inside a scheduled run is logged and never leaves the
\* callback, and the step in which a run fails changes neither backupSchedule
\* nor what node-cron fires: the trigger stays active for the next tick.
C7_FailedRunContained ==
  /\ [](reply.op = "auto" =>
          /\ ~reply.thrown
          /\ reply.failed # "none" => "logged" \in reply.keys)
  /\ [][(reply'.op = "auto" /\ reply'.failed # "none")
         => (scheduled' = scheduled /\ backupSchedule' = backupSchedule)]_vars

\* A run has failed and its trigger is still the active one.
C7_Witness ==
  /\ reply.op = "auto"
  /\ reply.failed \in {"dir", "backend", "upload"}
  /\ Active = 1
  /\ BagIn(backupSchedule, scheduled)

\* The objects a backup-related handler returns.
ResultShapes ==
  {{"success"}, {"success", "path"}, {"success", "path", "driveFileId"},
   {"success", "needRestart"}, {"success", "filePath"}, {"canceled"}, {"error"}}

\* C8 as stated: every backup-related handler ends with a structured result,
\* no exception leaves it, no result has both success and error, and a
\* failure of any step gives { error }.
C8_AnyFailureIsError ==
  reply.op \in FacadeOps =>
    /\ ~reply.thrown
    /\ reply.keys \in ResultShapes
    /\ reply.failed # "none" => reply.keys = {"error"}

\* C8 amended: as stated, but only a failure of a step other than the
\* best-effort remote sync (Drive setup, upload) gives { error }; a failure of
\* the remote sync gives success with driveFileId null.
C8_StructuredResult ==
  reply.op \in FacadeOps =>
    /\ ~reply.thrown
    /\ reply.keys \in ResultShapes
    /\ ~({"success", "error"} \subseteq reply.keys)
    /\ reply.failed \in {"options", "dir", "dialog", "backend"} =>
         reply.keys = {"error"}
    /\ reply.failed \in {"drive", "upload"} =>
         ("success" \in reply.keys /\ reply.driveFileId = NoId)

\* The Storage Backend failed and the handler returned { error }.
C8_Witness ==
  /\ reply.op \in {"backup", "restore", "repair"}
  /\ reply.failed = "backend"
  /\ reply.keys = {"error"}

\* C9: a schedule value outside manual, daily, weekly, monthly gets an error
\* result from setup-auto-backup, not { success }.
C9_InvalidFrequencyRejected ==
  (reply.op = "setup" /\ reply.arg \notin ValidFrequencies) =>
    ("error" \in reply.keys /\ "success" \notin reply.keys)

\* C10: a restore of a path that does not exist ends with { error }, without
\* success or needRestart, and leaves the live database as it was.
C10_RestoreOfMissingPathFails ==
  [][(reply'.op = "restore" /\ reply'.failed \notin {"dir", "dialog"}
      /\ reply'.path # NoPath /\ reply'.path \notin files)
     => (reply'.keys = {"error"} /\ liveDb' = liveDb)]_vars

C10_Witness ==
  /\ reply.op = "restore"
  /\ reply.path = MissingPath
  /\ reply.failed = "backend"
  /\ reply.keys = {"error"}
  /\ files # {}

----------------------------------------------------------------------------
(* Properties of restore, shutdown, naming and the remote sync *)

RestoreShapes == {{"canceled"}, {"success", "needRestart"}, {"error"}}

\* C11: restore-database returns exactly one of { canceled }, { success,
\* needRestart } or { error }; after a canceled (or empty) file picker
\* DatabaseService.restore was never called and the result is { canceled };
\* after a restore that succeeded the result is { success, needRestart };
\* the step in which a restore ends, asked for by the renderer or from the
\* menu, neither ends the process nor touches the schedule, and a canceled
\* one leaves the live database alone.  The process is restarted in one
\* place only: the message box the menu shows after its restore succeeded,
\* when the user answers it with 'restart now'.
C11_RestoreResultShapes ==
  /\ [](reply.op = "restore" =>
          /\ reply.keys \in RestoreShapes
          /\ reply.keys = {"canceled"} =>
               (reply.local = "none" /\ reply.path = NoPath)
          /\ reply.local = "ok" => reply.keys = {"success", "needRestart"}
          /\ reply.keys = {"success", "needRestart"} => reply.local = "ok")
  /\ [][reply'.op \in {"restore", "menu-restore"} =>
          /\ app' = app
          /\ scheduled' = scheduled
          /\ backupSchedule' = backupSchedule
          /\ (reply'.keys = {"canceled"} \/ reply'.local = "none") =>
               liveDb' = liveDb]_vars
  /\ [][(app # "exited" /\ app' = "exited") =>
          /\ reply'.op = "menu-restart"
          /\ reply'.calls = <<"relaunch", "exit">>
          /\ liveDb = Restored
          /\ \E t \in Suspended :
               t.kind = "menu-restore" /\ t.pc = "prompt" /\ t.local = "ok"]_vars
  /\ [](\A t \in Suspended : t.pc = "prompt" =>
          (t.kind = "menu-restore" /\ t.local = "ok"))

\* A restore asked for by the renderer has succeeded while a schedule is
\* active: the result asks for a restart, the process goes on, and the
\* backups of the menu and of the renderer lie side by side.
C11_Witness ==
  /\ reply.op = "restore"
  /\ reply.keys = {"success", "needRestart"}
  /\ liveDb = Restored
  /\ Active = 1
  /\ app = "ready"

\* C12: will-quit stops the trigger backupSchedule holds, if there is one,
\* and then closes the Storage Backend, in that order; with no trigger held
\* it only closes; afterwards node-cron fires nothing, so no scheduled run
\* starts after shutdown.  The restart of the menu ends the process with
\* app.exit() and without will-quit: it calls neither stop() nor close(),
\* and no run starts in a process that has exited.
C12_ShutdownStopsThenCloses ==
  /\ [](reply.op = "quit" =>
          /\ app = "quit"
          /\ reply.calls \in {<<"stop", "close">>, <<"close">>}
          /\ reply.stops = 0 => reply.calls = <<"close">>
          /\ reply.stops = 1 => reply.calls = <<"stop", "close">>)
  /\ [](app = "quit" => Active = 0)
  /\ [][(Active >= 1 /\ WillQuit) => (reply'.stops = 1 /\ Active' = 0)]_vars
  /\ [][(app = "quit" \/ app = "exited") =>
          ~(\E trigger \in BagToSet(scheduled), at \in Instants,
               mkdirOk \in BOOLEAN : AutoFire(trigger, at, mkdirOk))]_vars
  /\ [][(app # "exited" /\ app' = "exited") =>
          (reply'.stops = 0 /\ reply'.calls = <<"relaunch", "exit">> /\
           scheduled' = scheduled)]_vars

\* Shutdown with an active trigger: stopped, then closed.
C12_Witness ==
  /\ reply.op = "quit"
  /\ reply.calls = <<"stop", "close">>
  /\ backupSchedule # NoTrigger
  /\ Active = 0
  /\ app = "quit"

\* C13: backup-database on an absent backup directory creates the directory
\* and asks the Storage Backend for the file gym-backup-<timestamp>.db inside
\* it; when the backup has succeeded the file exists in the directory and
\* the path returned is the path of that file.
C13_DefaultBackupCreatesFile ==
  /\ [][\A at \in Instants :
          (~dirExists /\ BackupStart(at, TRUE)) =>
            /\ dirExists'
            /\ reply' = NoReply
            /\ \E t \in BagToSet(tasks') :
                 /\ t.kind = "backup" /\ t.pc = "backend"
                 /\ t.path = BackupPath("gym-backup", at)]_vars
  /\ [](\A t \in Suspended : t.kind = "backup" =>
          (t.path[1] = "backups" /\ t.path[2] = "gym-backup" /\
           t.path[4] = NoMillis))
  /\ [](reply.op = "backup" /\ "success" \in reply.keys =>
          /\ reply.keys = {"success", "path"}
          /\ dirExists
          /\ reply.path[1] = "backups"
          /\ reply.path[2] = "gym-backup"
          /\ reply.path \in files)

\* A backup into a directory that held nothing: one file, in the directory
\* that was created for it.
C13_Witness ==
  /\ reply.op = "backup"
  /\ reply.keys = {"success", "path"}
  /\ dirExists
  /\ files = {reply.path}
  /\ reply.path[2] = "gym-backup"

\* The backups written to the default path: their names come from the clock.
DefaultKinds == {"backup", "enhanced", "auto", "menu-backup"}

\* C14: two backups to the default path made at different instants are
\* written to different file names, so the later one does not overwrite the
\* file of the earlier one.
C14_DistinctInstantsDistinctNames ==
  \A t1 \in Suspended, t2 \in Suspended :
    (/\ t1.kind \in DefaultKinds /\ t2.kind \in DefaultKinds
     /\ t1.pc = "backend" /\ t2.pc = "backend"
     /\ t1.path[1] = "backups" /\ t2.path[1] = "backups"
     /\ t1.at # t2.at)
      => t1.path # t2.path

\* C15: after a setup call with daily, weekly or monthly the trigger held and
\* started was created with '0 2 * * *', '0 2 * * 0' or '0 2 1 * *'
\* (minute 0, hour 2; every day, day-of-week 0 = Sunday, day-of-month 1).
C15_FrequencyToCronExpression ==
  reply.op = "setup" =>
    /\ reply.arg = "daily" =>
         (backupSchedule.pattern = "0 2 * * *" /\ BagIn(backupSchedule, scheduled))
    /\ reply.arg = "weekly" =>
         (backupSchedule.pattern = "0 2 * * 0" /\ BagIn(backupSchedule, scheduled))
    /\ reply.arg = "monthly" =>
         (backupSchedule.pattern = "0 2 1 * *" /\ BagIn(backupSchedule, scheduled))
    /\ \A trigger \in BagToSet(scheduled) :
         trigger.pattern \in {"0 2 * * *", "0 2 * * 0", "0 2 1 * *"}

\* A weekly schedule replaced a daily or monthly one.
C15_Witness ==
  /\ reply.op = "setup"
  /\ reply.arg = "weekly"
  /\ reply.stops = 1
  /\ backupSchedule.pattern = "0 2 * * 0"
  /\ Active = 1

\* C16: the trigger a scheduling call starts carries the credentials of that
\* call and of no earlier one; a run has the credentials of the trigger that
\* fired it, which is the trigger held; and a run goes on to the upload
\* exactly when it has credentials (and its backup succeeded and the Drive
\* client was set up), so a run of a trigger scheduled without credentials
\* never uploads.
C16_CredentialsPerSchedulingCall ==
  /\ [][\A schedule \in ScheduleInputs, creds \in BOOLEAN :
          (StartsTrigger(schedule) /\ SetupAutoBackup(schedule, creds)) =>
            /\ backupSchedule'.creds = creds
            /\ \A trigger \in BagToSet(scheduled') : trigger.creds = creds]_vars
  /\ [][\A trigger \in BagToSet(scheduled), at \in Instants :
          AutoFire(trigger, at, TRUE) =>
            /\ trigger = backupSchedule
            /\ \E t \in BagToSet(tasks') :
                 /\ t.kind = "auto" /\ t.pc = "backend" /\ t.at = at
                 /\ t.creds = backupSchedule.creds]_vars
  /\ [][\A t \in Suspended, ok \in BOOLEAN, authOk \in BOOLEAN :
          AutoBackupDone(t, ok, authOk) =>
            /\ (t.creds /\ ok /\ authOk) =>
                 (reply' = NoReply /\
                  BagIn([t EXCEPT !.pc = "upload", !.local = "ok"], tasks'))
            /\ ~t.creds =>
                 (reply'.op = "auto" /\ reply'.remote = "none" /\
                  BagCardinality(tasks') = BagCardinality(tasks) - 1)]_vars
  /\ [](\A t \in Suspended : (t.kind = "auto" /\ t.pc = "upload") => t.creds)

\* A schedule without credentials has replaced one with credentials, a run
\* of which is still suspended.
C16_Witness ==
  /\ reply.op = "setup"
  /\ reply.stops = 1
  /\ backupSchedule # NoTrigger
  /\ ~backupSchedule.creds
  /\ Active = 1
  /\ \E t \in Suspended : t.kind = "auto" /\ t.creds

\* C17: backup-database-enhanced goes on to the upload only with
\* uploadToDrive set and credentials given; in every other combination a
\* backup that succeeded returns success with driveFileId null and no upload
\* was attempted.  With customPath the backup is written to that path and
\* that path is returned; without it the path is the timestamped default in
\* the backup directory.  When the upload has succeeded the result has the
\* path the backup was written to and the identifier Drive gave.
C17_EnhancedUploadAndPath ==
  /\ [](\A t \in Suspended :
          (t.kind = "enhanced" /\ t.pc = "upload") => (t.flag /\ t.creds))
  /\ [][\A t \in Suspended, authOk \in BOOLEAN :
          (~(t.flag /\ t.creds) /\ EnhancedBackupDone(t, TRUE, authOk)) =>
            /\ reply'.keys = {"success", "path", "driveFileId"}
            /\ reply'.driveFileId = NoId
            /\ reply'.remote = "none"
            /\ reply'.path = t.path
            /\ t.path \in files'
            /\ \A u \in BagToSet(tasks') : BagIn(u, tasks)]_vars
  /\ [][\A flag \in BOOLEAN, creds \in BOOLEAN :
          EnhancedStart(Options(CustomPath, flag, creds), 0, TRUE) =>
            /\ dirExists' = dirExists
            /\ \E t \in BagToSet(tasks') :
                 /\ t.kind = "enhanced" /\ t.pc = "backend"
                 /\ t.path = CustomPath /\ t.flag = flag /\ t.creds = creds]_vars
  /\ [][\A flag \in BOOLEAN, creds \in BOOLEAN, at \in Instants :
          EnhancedStart(Options(NoPath, flag, creds), at, TRUE) =>
            /\ dirExists'
            /\ \E t \in BagToSet(tasks') :
                 /\ t.kind = "enhanced" /\ t.pc = "backend"
                 /\ t.path = BackupPath("gym-backup", at)
                 /\ t.flag = flag /\ t.creds = creds]_vars
  /\ [][\A t \in Suspended :
          EnhancedUploadDone(t, TRUE) =>
            /\ reply'.keys = {"success", "path", "driveFileId"}
            /\ reply'.path = t.path
            /\ reply'.driveFileId = DriveId
            /\ t.flag /\ t.creds]_vars
  /\ [](reply.op = "enhanced" /\ "success" \in reply.keys =>
          /\ reply.local = "ok"
          /\ \/ reply.path = CustomPath
             \/ reply.path[1] = "backups" /\ reply.path[2] = "gym-backup"
          /\ reply.remote = "none" => reply.driveFileId = NoId)

\* A backup to the custom path that asked for no upload, or gave no
\* credentials: success, the custom path, no remote identifier.
C17_Witness ==
  /\ reply.op = "enhanced"
  /\ reply.keys = {"success", "path", "driveFileId"}
  /\ reply.path = CustomPath
  /\ reply.failed = "none"
  /\ reply.remote = "none"
  /\ reply.driveFileId = NoId
  /\ CustomPath \in files

RemoteSteps == {"drive", "upload"}

\* C18: a Drive client that cannot be set up and an upload that fails end
\* alike: the failure is logged, there is no remote identifier, the local
\* backup has been written and the step that fails removes no file;
\* backup-database-enhanced returns
\* success with driveFileId null in both cases, and a scheduled run lets no
\* exception out in either case.
C18_RemoteFailuresAlike ==
  /\ [](reply.op \in {"enhanced", "auto"} /\ reply.failed \in RemoteSteps =>
          /\ reply.logged
          /\ ~reply.thrown
          /\ reply.driveFileId = NoId
          /\ reply.local = "ok"
          /\ reply.path # NoPath
          /\ reply.failed = "drive" => reply.path \in files
          /\ reply.op = "enhanced" =>
               reply.keys = {"success", "path", "driveFileId"}
          /\ reply.op = "auto" => "logged" \in reply.keys)
  /\ [][reply'.failed \in RemoteSteps => files \subseteq files']_vars

\* backup-database-enhanced could not set up the Drive client: success, the
\* local file, no remote identifier.
C18_Witness ==
  /\ reply.op = "enhanced"
  /\ reply.failed = "drive"
  /\ reply.logged
  /\ reply.keys = {"success", "path", "driveFileId"}
  /\ reply.driveFileId = NoId
  /\ reply.path \in files

\* The invocations that call ensureBackupDirectory before their first await.
DirectoryKinds == {"backup", "auto", "restore", "menu-backup", "menu-restore"}

\* C19: ensureBackupDirectory creates the directory only when it is absent:
\* while the directory exists no call creates anything, fails on the
\* directory or changes it (only its removal from outside does); a call
\* that finds it absent creates it or fails; and every call gives the same
\* directory, the one all default paths lie in.
C19_EnsureDirectoryIdempotent ==
  /\ [][(dirExists /\ ~RemoveBackupDirectory) =>
          (dirExists' /\ reply'.failed # "dir")]_vars
  /\ [](reply.failed = "dir" => ~dirExists)
  /\ [][(~dirExists /\ dirExists') =>
          \/ reply'.op = "window"
          \/ \E t \in BagToSet(tasks') :
               /\ CopiesIn(t, tasks') > CopiesIn(t, tasks)
               /\ t.kind \in DirectoryKinds \cup {"enhanced"}
               /\ t.path = NoPath \/ t.path[1] = "backups"]_vars
  /\ [][\A t \in BagToSet(tasks') :
          (/\ CopiesIn(t, tasks') > CopiesIn(t, tasks)
           /\ InFlight' = InFlight + 1
           /\ t.kind \in DirectoryKinds) => dirExists']_vars
  /\ [](\A t \in Suspended :
          t.kind \in {"backup", "auto", "menu-backup"} => t.path[1] = "backups")

\* A second call: the directory was made for an earlier backup, whose file
\* exists, and another request has passed ensureBackupDirectory.
C19_Witness ==
  /\ dirExists
  /\ files # {}
  /\ EarlierBackup \notin files
  /\ \E t \in Suspended : t.kind \in {"backup", "restore"}

BackendKinds ==
  {"backup", "enhanced", "restore", "repair", "auto", "menu-backup",
   "menu-restore"}

\* C20: no request and no scheduled run asks the Storage Backend twice: an
\* invocation that waits for the Storage Backend has had no call end before,
\* and the step in which its call ends, well or not, ends the invocation or
\* takes it to the upload, never back to the Storage Backend.
C20_NoRetry ==
  /\ [](\A t \in Suspended :
          /\ t.pc \in {"backend", "dialog"} => t.local = "none"
          /\ t.pc \in {"upload", "prompt"} => t.local = "ok")
  /\ [](reply.op \in BackendKinds /\ reply.failed = "backend" =>
          reply.local = "failed")
  /\ [][reply'.op \in BackendKinds /\ reply'.failed = "backend" =>
          /\ BackendCalls(BackendKinds)' = BackendCalls(BackendKinds) - 1
          /\ InFlight' = InFlight - 1]_vars

\* A backup or a scheduled run whose Storage Backend call failed has ended.
C20_Witness ==
  /\ reply.op \in {"backup", "auto"}
  /\ reply.failed = "backend"
  /\ reply.local = "failed"
  /\ BackendCalls(BackendKinds) = 0

----------------------------------------------------------------------------
(* Properties of the frame, of runs in flight, of setup and of login *)

\* C21: backup-database, backup-database-enhanced, restore-database and
\* repair-database leave the schedule as it was: the step that ends such a
\* request, well or not, changes neither backupSchedule (the trigger held
\* and the credentials bound to it) nor what node-cron fires; neither does
\* a click of the menu's backup or restore item.  No step of the process
\* but one of setup-auto-backup or will-quit changes them; the one other
\* change is the new process that app.relaunch() starts after app.exit(),
\* which has no trigger.  The process keeps no catalog of past backups: its
\* state is `vars`.
C21_RequestsLeaveScheduleAlone ==
  /\ [][reply'.op \in UserKinds =>
          (backupSchedule' = backupSchedule /\ scheduled' = scheduled)]_vars
  /\ [][(backupSchedule' # backupSchedule \/ scheduled' # scheduled) =>
          \/ reply'.op \in {"setup", "quit"}
          \/ /\ app = "exited" /\ app' = "loading"
             /\ backupSchedule' = NoTrigger /\ scheduled' = EmptyBag]_vars

\* A restore has failed at the Storage Backend while a schedule with
\* credentials is active: the schedule is still there.
C21_Witness ==
  /\ reply.op = "restore"
  /\ reply.failed = "backend"
  /\ Active = 1
  /\ BagIn(backupSchedule, scheduled)
  /\ backupSchedule.creds

\* C22: a scheduled run in flight is not cancelled: a setup call (another
\* schedule or 'manual') and will-quit leave every suspended invocation as
\* it is; a suspended run leaves only by its own next segment (or with the
\* process, once app.exit() has ended it); and when its backup has succeeded
\* a run with credentials goes on to the upload with the credentials of its
\* own closure, whatever the schedule is by then.
C22_RunsNotCancelled ==
  /\ [][reply'.op \in {"setup", "quit"} => tasks' = tasks]_vars
  /\ [][\A t \in Suspended :
          (t.kind = "auto" /\ CopiesIn(t, tasks') < CopiesIn(t, tasks)) =>
            \/ reply'.op = "auto"
            \/ (t.pc = "backend" /\ t.creds /\
                BagIn([t EXCEPT !.pc = "upload", !.local = "ok"], tasks'))
            \/ app = "exited"]_vars
  /\ [][\A t \in Suspended :
          (t.creds /\ ~BagIn(backupSchedule, scheduled)
             /\ AutoBackupDone(t, TRUE, TRUE)) =>
            BagIn([t EXCEPT !.pc = "upload", !.local = "ok"], tasks')]_vars

\* A run has ended with its upload done though no trigger is active any
\* more: its schedule was set to manual, or stopped at shutdown, meanwhile.
C22_Witness ==
  /\ reply.op = "auto"
  /\ reply.local = "ok"
  /\ reply.remote = "ok"
  /\ Active = 0

\* C23: scheduleAutoBackup stops and clears the trigger held before it looks
\* at the value asked for: a call made while a trigger is active calls
\* stop() once whatever the value, and afterwards one trigger is active when
\* the value is daily, weekly or monthly and none otherwise; after an empty
\* or unrecognised value no trigger is held or active and the result of
\* setup-auto-backup is { success: true }.
C23_StopsBeforeExamining ==
  /\ [][\A schedule \in ScheduleInputs, creds \in BOOLEAN :
          (backupSchedule # NoTrigger /\ BagIn(backupSchedule, scheduled)
             /\ SetupAutoBackup(schedule, creds)) =>
            /\ reply'.stops = 1
            /\ Active' = IF schedule \in {"daily", "weekly", "monthly"}
                         THEN 1 ELSE 0
            /\ schedule \notin {"daily", "weekly", "monthly"} =>
                 ~BagIn(backupSchedule, scheduled')]_vars
  /\ [](reply.op = "setup" /\ reply.arg \notin ValidFrequencies =>
          /\ reply.keys = {"success"}
          /\ ~reply.thrown
          /\ backupSchedule = NoTrigger
          /\ Active = 0)

\* An unrecognised value came while a trigger was active: the trigger was
\* stopped, none is active, and the result is success.
C23_Witness ==
  /\ reply.op = "setup"
  /\ reply.arg = "hourly"
  /\ reply.stops = 1
  /\ reply.keys = {"success"}
  /\ backupSchedule = NoTrigger
  /\ Active = 0

\* What the renderer gets of a login result.
Visible(result) ==
  [keys |-> result.keys, message |-> result.message, user |-> result.user]

\* C24: no login result has a password_hash, neither as a property of the
\* user object nor as a value in it; and the result for a name that is
\* unknown or inactive is the same as the result for a known name with a
\* wrong password: success false and the one message.
C24_LoginRevealsNothing ==
  /\ reply.op = "login" =>
       /\ \A property \in reply.user :
            /\ property[1] # "password_hash"
            /\ \A row \in UserRows : property[2] # row.password_hash
       /\ "user" \in reply.keys =>
            (\E row \in UserRows :
               /\ row.is_active = "1"
               /\ <<"username", row.username>> \in reply.user)
       /\ reply.failed \in {"nouser", "password"} =>
            /\ Visible(reply) = Visible(LoginRejected("nouser"))
            /\ Visible(reply) = Visible(LoginRejected("password"))
            /\ reply.keys = {"success", "message"}
            /\ reply.user = {}
  /\ \A t \in Suspended :
       (t.kind = "login" /\ t.pc = "compare") => QueryUsers(t.args[1]) # {}

\* The owner has logged in while a request with a wrong password waits for
\* bcrypt.compare.
C24_Witness ==
  /\ reply.op = "login"
  /\ reply.keys = {"success", "user"}
  /\ <<"username", "owner">> \in reply.user
  /\ <<"role", "admin">> \in reply.user
  /\ \E t \in Suspended :
       t.kind = "login" /\ t.pc = "compare" /\ t.args[2] = "wrong"

====
